---------------------------- MODULE Spec2Model ----------------------------
(***************************************************************************)
(* LocalStack toolkit: the value emitter, the once-immediate scheduler,    *)
(* the health poll loop and the instance status tracker.                   *)
(*                                                                         *)
(* Spec        the instance status tracker with its health poll loop, on   *)
(*             Node's event loop (timers, I/O completions, immediates).    *)
(* SpecEmitter one value emitter with observers that may be asynchronous.  *)
(* SpecFile    the file status tracker: a once-immediate scheduler around  *)
(*             an asynchronous unit of work.                               *)
(* SpecDerive  the pure derivation function on every input triple.         *)
(* SpecStatusBar the status bar plugin: a once-immediate scheduler around  *)
(*             a synchronous unit of work.                                 *)
(***************************************************************************)
EXTENDS Naturals, Sequences, FiniteSets

\* JavaScript's undefined.
Absent == "absent"

ContainerValues == {"running", "stopping", "stopped"}
HealthValues == {"healthy", "unhealthy"}
InstanceValues == {"starting", "running", "stopping", "stopped"}

\* The three value emitters of the instance tracker.
CellNames == {"container", "health", "status"}

\* Bound on the number of poll chains (armed timers plus probes in flight)
\* that may exist at once; start() adds a chain when it arms a timer.
MaxChains == 3

VARIABLES
    containerStatus,     \* createLocalStackInstanceStatusTracker: let containerStatus
    currentValue,        \* createValueEmitter: let currentValue, per emitter
    timeout,             \* createOnceImmediate: let timeout, per scheduler
    immediates,          \* Node's queue of setImmediate callbacks (emitter names)
    batchLeft,           \* immediates left to run in the current check phase
    enqueueAgain,        \* createHealthStatusTracker: let enqueueAgain
    healthCheckTimeout,  \* createHealthStatusTracker: let healthCheckTimeout
    orphanTimers,        \* armed poll timers healthCheckTimeout no longer refers to
    probesInFlight,      \* fetchHealth() calls not yet resolved
    calls,               \* history: poll-loop methods invoked, and a failed probe, in the last step
    stopOwed,            \* history: status became running and stop() has not run since
    stopMidProbe,        \* history: last stop() found a probe in flight, no start() since
    forced,              \* history: forceContainerStatus called, no container delivery since
    disposed,            \* history: dispose() has been called
    derived,             \* SpecDerive: one call of getLocalStackStatus
    callbacks,           \* SpecEmitter: createValueEmitter's callbacks array
    runs,                \* SpecEmitter: per run of emit, the callback it awaits
    delivered,           \* history: per callback, the values fanned out to it
    written,             \* history: the values written before the run began
    wroteDuringRun,      \* history: a write changed the value after it began
    lastCall,            \* history: the latest call of a callback, replay or fan-out
    lastSeen,            \* history: per callback, the value of its latest call
    uncaught,            \* history: an exception or a rejection was left unhandled
    fileState,           \* SpecFile: what check() finds on disk
    checking,            \* SpecFile: updateStatus is suspended in await check()
    checkResult,         \* SpecFile: what the check in flight will return
    unserved,            \* history: updateStatus() called, no run begun since
    statusBarItem        \* SpecStatusBar: what renderStatusBar has set on the item

varsT == <<containerStatus, currentValue, timeout, immediates, batchLeft, enqueueAgain,
           healthCheckTimeout, orphanTimers, probesInFlight, calls, stopOwed,
           stopMidProbe, forced, disposed>>

varsE == <<callbacks, runs, delivered, written, wroteDuringRun, lastCall, lastSeen,
           uncaught>>

varsF == <<fileState, checking, checkResult, unserved>>

varsB == <<statusBarItem>>

vars == <<varsT, derived, varsE, varsF, varsB>>

---------------------------------------------------------------------------
(* getLocalStackStatus: the derivation function.                           *)

\* As the line left commented out in the source would have it.
getLocalStackStatus_ReturnPrevious(c, h, p) ==
    IF c = Absent THEN Absent
    ELSE IF c = "running" /\ h = "healthy" THEN "running"
    ELSE IF c = "running" /\ h = "unhealthy"
         THEN (IF p = "running" \/ p = "stopping" THEN "stopping" ELSE "starting")
    ELSE IF c = "running" /\ h = Absent THEN p
    ELSE IF c = "stopping" THEN "stopping"
    ELSE "stopped"

getLocalStackStatus_PreviousRunningOnly(c, h, p) ==
    IF c = Absent THEN Absent
    ELSE IF c = "running" /\ h = "healthy" THEN "running"
    ELSE IF c = "running" /\ h = "unhealthy"
         THEN (IF p = "running" THEN "stopping" ELSE "starting")
    ELSE IF c = "running" /\ h = Absent THEN Absent
    ELSE IF c = "stopping" THEN "stopping"
    ELSE "stopped"

getLocalStackStatus_StoppingReadsHealth(c, h, p) ==
    IF c = Absent THEN Absent
    ELSE IF (c = "running" \/ c = "stopping") /\ h = "healthy" THEN "running"
    ELSE IF c = "running" /\ h = "unhealthy"
         THEN (IF p = "running" \/ p = "stopping" THEN "stopping" ELSE "starting")
    ELSE IF c = "running" /\ h = Absent THEN Absent
    ELSE IF c = "stopping" THEN "stopping"
    ELSE "stopped"

getLocalStackStatus(c, h, p) ==
    IF c = Absent THEN Absent
    ELSE IF c = "running" /\ h = "healthy" THEN "running"
    ELSE IF c = "running" /\ h = "unhealthy"
         THEN (IF p = "running" \/ p = "stopping" THEN "stopping" ELSE "starting")
    ELSE IF c = "running" /\ h = Absent THEN Absent
    ELSE IF c = "stopping" THEN "stopping"
    ELSE "stopped"

---------------------------------------------------------------------------
(* The instance tracker's state as one record, so that a handler's         *)
(* statements compose in program order.                                    *)

S ==
    [containerStatus |-> containerStatus, currentValue |-> currentValue,
     timeout |-> timeout,
     immediates |-> immediates, enqueueAgain |-> enqueueAgain,
     healthCheckTimeout |-> healthCheckTimeout, orphanTimers |-> orphanTimers,
     probesInFlight |-> probesInFlight, calls |-> {}, stopOwed |-> stopOwed,
     stopMidProbe |-> stopMidProbe, forced |-> forced, disposed |-> disposed]

Commit(t) ==
    /\ containerStatus' = t.containerStatus
    /\ currentValue' = t.currentValue
    /\ timeout' = t.timeout
    /\ immediates' = t.immediates
    /\ enqueueAgain' = t.enqueueAgain
    /\ healthCheckTimeout' = t.healthCheckTimeout
    /\ orphanTimers' = t.orphanTimers
    /\ probesInFlight' = t.probesInFlight
    /\ calls' = t.calls
    /\ stopOwed' = t.stopOwed
    /\ stopMidProbe' = t.stopMidProbe
    /\ forced' = t.forced
    /\ disposed' = t.disposed

\* createOnceImmediate's returned function, for emitter n: a no-op while the
\* timeout flag is set, else setImmediate.
trigger_NoGuard(st, n) ==
    [st EXCEPT !.timeout[n] = TRUE, !.immediates = Append(@, n)]

trigger(st, n) ==
    IF st.timeout[n]
    THEN st
    ELSE [st EXCEPT !.timeout[n] = TRUE, !.immediates = Append(@, n)]

\* ValueEmitter.setValue on emitter n.
setValue(st, n, v) ==
    IF st.currentValue[n] # v
    THEN trigger([st EXCEPT !.currentValue[n] = v,
                            !.stopOwed = @ \/ (n = "status" /\ v = "running")], n)
    ELSE st

\* The scheduled run's finally: the flag is cleared after the fan-out.
emitDone(st, n) ==
    [st EXCEPT !.timeout[n] = FALSE]

\* As if the result were stored without the check that it is defined.
deriveStatus_StoresAbsent(st) ==
    setValue(st, "status", getLocalStackStatus(st.containerStatus,
                                               st.currentValue["health"],
                                               st.currentValue["status"]))

deriveStatus(st) ==
    LET newStatus == getLocalStackStatus(st.containerStatus,
                                         st.currentValue["health"],
                                         st.currentValue["status"])
    IN  IF newStatus # Absent THEN setValue(st, "status", newStatus) ELSE st

enqueueUpdateStatus(st) ==
    IF st.healthCheckTimeout # "none"
    THEN st
    ELSE [st EXCEPT !.healthCheckTimeout = "armed"]

\* HealthStatusTracker.start
start(st) ==
    enqueueUpdateStatus([st EXCEPT !.enqueueAgain = TRUE,
                                   !.calls = @ \cup {"start"},
                                   !.stopMidProbe = FALSE])

\* HealthStatusTracker.stop: clearTimeout cancels the timer the handle
\* refers to, if it is still armed.
stop(st) ==
    LET s1 == setValue(st, "health", Absent)
    IN  [s1 EXCEPT !.enqueueAgain = FALSE,
                   !.healthCheckTimeout = "none",
                   !.calls = @ \cup {"stop"},
                   !.stopOwed = FALSE,
                   !.stopMidProbe = (st.probesInFlight > 0)]

\* HealthStatusTracker.dispose: the timer is cancelled, the handle is kept.
dispose(st) ==
    [st EXCEPT !.healthCheckTimeout = IF @ = "armed" THEN "spent" ELSE @,
               !.disposed = TRUE]

\* First observer of the container emitter.
containerObserver1(st, newContainerStatus) ==
    IF st.containerStatus # newContainerStatus
    THEN deriveStatus([st EXCEPT !.containerStatus = newContainerStatus])
    ELSE st

containerObserver2_NoStatusCheck(st, newContainerStatus) ==
    IF newContainerStatus = "running" THEN start(st) ELSE st

\* Second observer of the container emitter.
containerObserver2(st, newContainerStatus) ==
    IF newContainerStatus = "running" /\ st.currentValue["status"] # "running"
    THEN start(st)
    ELSE st

\* Observer of the instance status emitter.
statusObserver(st, newStatus) ==
    IF newStatus = "running" THEN stop(st) ELSE st

\* Observer of the health emitter.
healthObserver(st) ==
    deriveStatus(st)

forceContainerStatus_ViaDerive(st, newContainerStatus) ==
    deriveStatus([st EXCEPT !.containerStatus = newContainerStatus,
                            !.forced = TRUE])

forceContainerStatus(st, newContainerStatus) ==
    LET s1 == [st EXCEPT !.containerStatus = newContainerStatus, !.forced = TRUE]
    IN  IF newContainerStatus = "running" THEN setValue(s1, "status", "starting")
        ELSE IF newContainerStatus = "stopping" THEN setValue(s1, "status", "stopping")
        ELSE s1

\* The then-callback after fetchAndUpdateStatus: re-arm while enqueueAgain.
\* A timer the handle still refers to stays armed and is no longer reachable.
afterProbe(st) ==
    IF ~st.enqueueAgain
    THEN st
    ELSE enqueueUpdateStatus(
            [st EXCEPT !.orphanTimers = IF st.healthCheckTimeout = "armed"
                                        THEN @ + 1 ELSE @,
                       !.healthCheckTimeout = "none"])

\* What the request to the health endpoint ends in: a response that is ok,
\* one that is not, or no response at all.
ProbeOutcomes == {"ok", "notOk", "error"}

\* As if a failed request were passed on to the caller.
fetchHealth_Rejects(outcome) ==
    [rejected |-> outcome = "error", value |-> outcome = "ok"]

\* fetchHealth: the promise resolves to whether the endpoint answered ok; a
\* request that fails resolves to false.
fetchHealth(outcome) ==
    [rejected |-> FALSE, value |-> outcome = "ok"]

\* fetchAndUpdateStatus from the point where fetchHealth() has settled. A
\* rejection passes through both awaits: nothing is published, and the
\* then-callback that re-arms the timer is not called.
probeResolved(st, result) ==
    IF result.rejected
    THEN [st EXCEPT !.probesInFlight = @ - 1]
    ELSE afterProbe(setValue([st EXCEPT !.probesInFlight = @ - 1], "health",
                             IF result.value THEN "healthy" ELSE "unhealthy"))

\* Armed timers and probes in flight: each is one chain of the poll loop.
Chains(st) ==
    (IF st.healthCheckTimeout = "armed" THEN 1 ELSE 0) + st.orphanTimers
        + st.probesInFlight

\* createLocalStackInstanceStatusTracker, given the container emitter's value
\* at that time: every onChange replays the current value to the new observer.
Construct(c0) ==
    LET s0 == [containerStatus |-> Absent,
               currentValue |-> [n \in CellNames |->
                                   IF n = "container" THEN c0 ELSE Absent],
               timeout |-> [n \in CellNames |-> FALSE],
               immediates |-> <<>>, enqueueAgain |-> FALSE,
               healthCheckTimeout |-> "none", orphanTimers |-> 0,
               probesInFlight |-> 0, calls |-> {}, stopOwed |-> FALSE,
               stopMidProbe |-> FALSE, forced |-> FALSE, disposed |-> FALSE]
        s1 == containerObserver1(s0, c0)
        s2 == statusObserver(s1, s1.currentValue["status"])
        s3 == containerObserver2(s2, c0)
        s4 == healthObserver(s3)
    IN  deriveStatus(s4)

\* The status bar item before renderStatusBar has set anything on it.
NotRendered == [command |-> Absent, backgroundColor |-> Absent, text |-> Absent,
                tooltip |-> Absent]

StatusBarUnused ==
    statusBarItem = NotRendered

\* No callback has been called yet.
NoCall == [to |-> 0, value |-> Absent, how |-> "none"]

\* The parts of the state a specification does not use stay as they start.
DeriveUnused ==
    derived = [container |-> Absent, health |-> Absent, previous |-> Absent,
               result |-> Absent, applied |-> FALSE]

EmitterUnused ==
    /\ callbacks = <<>>
    /\ runs = <<>>
    /\ delivered = <<>>
    /\ written = <<>>
    /\ wroteDuringRun = FALSE
    /\ lastCall = NoCall
    /\ lastSeen = <<>>
    /\ uncaught = FALSE

FileUnused ==
    /\ fileState = Absent
    /\ checking = FALSE
    /\ checkResult = Absent
    /\ unserved = FALSE

\* The state createLocalStackInstanceStatusTracker returns with.
Constructed(c0) ==
    LET t == Construct(c0)
    IN  /\ containerStatus = t.containerStatus
        /\ currentValue = t.currentValue
        /\ timeout = t.timeout
        /\ immediates = t.immediates
        /\ enqueueAgain = t.enqueueAgain
        /\ healthCheckTimeout = t.healthCheckTimeout
        /\ orphanTimers = t.orphanTimers
        /\ probesInFlight = t.probesInFlight
        /\ calls = t.calls
        /\ stopOwed = t.stopOwed
        /\ stopMidProbe = t.stopMidProbe
        /\ forced = t.forced
        /\ disposed = t.disposed
        /\ batchLeft = 0

Init ==
    /\ \E c0 \in ContainerValues \cup {Absent} : Constructed(c0)
    /\ DeriveUnused
    /\ EmitterUnused
    /\ FileUnused
    /\ StatusBarUnused

---------------------------------------------------------------------------
(* Steps of the event loop.                                                *)

\* The container status source writes its emitter (an I/O callback).
ContainerSource(v) ==
    /\ batchLeft = 0
    /\ v = "running" => Chains(S) < MaxChains
    /\ Commit(setValue(S, "container", v))
    /\ UNCHANGED <<batchLeft, derived, varsE, varsF, varsB>>

\* A caller forces the container status (a command handler).
ForceContainerStatus(v) ==
    /\ batchLeft = 0
    /\ Commit(forceContainerStatus(S, v))
    /\ UNCHANGED <<batchLeft, derived, varsE, varsF, varsB>>

\* The check phase begins: it runs the immediates queued so far, in order;
\* immediates queued while it runs wait for the next iteration.
BeginImmediates ==
    /\ batchLeft = 0
    /\ immediates # <<>>
    /\ batchLeft' = Len(immediates)
    /\ calls' = {}
    /\ UNCHANGED <<containerStatus, currentValue, timeout, immediates, enqueueAgain,
                   healthCheckTimeout, orphanTimers, probesInFlight, stopOwed,
                   stopMidProbe, forced, disposed, derived, varsE, varsF, varsB>>

\* As if the flag were cleared when the scheduled run begins.
Pop_ClearsFlag(st) ==
    [st EXCEPT !.immediates = Tail(@), !.timeout[Head(st.immediates)] = FALSE]

\* Node takes the setImmediate callback at the head of the queue.
Pop(st) ==
    [st EXCEPT !.immediates = Tail(@)]

\* The container emitter's scheduled run: both observers, then the finally.
ContainerFanout ==
    /\ batchLeft > 0
    /\ Head(immediates) = "container"
    /\ LET s1 == containerObserver1(Pop(S), currentValue["container"])
           s2 == containerObserver2(s1, s1.currentValue["container"])
       IN  Commit([emitDone(s2, "container") EXCEPT !.forced = FALSE])
    /\ batchLeft' = batchLeft - 1
    /\ UNCHANGED <<derived, varsE, varsF, varsB>>

HealthFanout ==
    /\ batchLeft > 0
    /\ Head(immediates) = "health"
    /\ Commit(emitDone(healthObserver(Pop(S)), "health"))
    /\ batchLeft' = batchLeft - 1
    /\ UNCHANGED <<derived, varsE, varsF, varsB>>

StatusFanout ==
    /\ batchLeft > 0
    /\ Head(immediates) = "status"
    /\ Commit(emitDone(statusObserver(Pop(S), currentValue["status"]),
                       "status"))
    /\ batchLeft' = batchLeft - 1
    /\ UNCHANGED <<derived, varsE, varsF, varsB>>

\* The timer healthCheckTimeout refers to fires: fetchAndUpdateStatus starts.
TimerFire ==
    /\ batchLeft = 0
    /\ healthCheckTimeout = "armed"
    /\ Commit([S EXCEPT !.healthCheckTimeout = "spent",
                        !.probesInFlight = @ + 1])
    /\ UNCHANGED <<batchLeft, derived, varsE, varsF, varsB>>

\* A timer that is armed but no longer referred to fires.
OrphanTimerFire ==
    /\ batchLeft = 0
    /\ orphanTimers > 0
    /\ Commit([S EXCEPT !.orphanTimers = @ - 1, !.probesInFlight = @ + 1])
    /\ UNCHANGED <<batchLeft, derived, varsE, varsF, varsB>>

\* fetchHealth() settles: the result is published, then the then-callback.
\* Nothing handles a rejection of fetchAndUpdateStatus.
ProbeComplete(outcome) ==
    /\ batchLeft = 0
    /\ probesInFlight > 0
    /\ Commit([probeResolved(S, fetchHealth(outcome))
                  EXCEPT !.calls = IF outcome = "error"
                                   THEN @ \cup {"probeFailed"} ELSE @])
    /\ uncaught' = (uncaught \/ fetchHealth(outcome).rejected)
    /\ UNCHANGED <<batchLeft, derived, callbacks, runs, delivered, written,
                   wroteDuringRun, lastCall, lastSeen, varsF, varsB>>

\* LocalStackInstanceStatusTracker.dispose
Dispose ==
    /\ batchLeft = 0
    /\ Commit(dispose(S))
    /\ UNCHANGED <<batchLeft, derived, varsE, varsF, varsB>>

Next ==
    \/ \E v \in ContainerValues \cup {Absent} : ContainerSource(v)
    \/ \E v \in ContainerValues : ForceContainerStatus(v)
    \/ BeginImmediates
    \/ ContainerFanout
    \/ HealthFanout
    \/ StatusFanout
    \/ TimerFire
    \/ OrphanTimerFire
    \/ \E outcome \in ProbeOutcomes : ProbeComplete(outcome)
    \/ Dispose

Spec == Init /\ [][Next]_vars

---------------------------------------------------------------------------
(* SpecDerive: getLocalStackStatus applied to every input triple, and fed  *)
(* back its own result as deriveStatus does.                               *)

InitDerive ==
    /\ Constructed(Absent)
    /\ EmitterUnused
    /\ FileUnused
    /\ StatusBarUnused
    /\ \E c \in ContainerValues \cup {Absent}, h \in HealthValues \cup {Absent},
          p \in InstanceValues \cup {Absent} :
          derived = [container |-> c, health |-> h, previous |-> p,
                     result |-> Absent, applied |-> FALSE]

\* The call in deriveStatus.
DeriveApply ==
    /\ ~derived.applied
    /\ derived' = [derived EXCEPT
                      !.result = getLocalStackStatus(derived.container,
                                                     derived.health,
                                                     derived.previous),
                      !.applied = TRUE]
    /\ UNCHANGED <<varsT, varsE, varsF, varsB>>

\* deriveStatus stores a defined result, which is the previous status of the
\* next call; the inputs of the next call are arbitrary.
DeriveAgain(c, h) ==
    /\ derived.applied
    /\ derived' = [container |-> c, health |-> h,
                   previous |-> IF derived.result # Absent
                                THEN derived.result ELSE derived.previous,
                   result |-> Absent, applied |-> FALSE]
    /\ UNCHANGED <<varsT, varsE, varsF, varsB>>

NextDerive ==
    \/ DeriveApply
    \/ \E c \in ContainerValues \cup {Absent}, h \in HealthValues \cup {Absent} :
          DeriveAgain(c, h)

SpecDerive == InitDerive /\ [][NextDerive]_vars

\* The table of the specification, row by row; Absent stands both for
\* "absent (no emission)" and for "no change".
Table(c, h, p) ==
    CASE c = Absent -> Absent
      [] c = "running" /\ h = "healthy" -> "running"
      [] c = "running" /\ h = "unhealthy" /\ p \in {"running", "stopping"} -> "stopping"
      [] c = "running" /\ h = "unhealthy" /\ p \notin {"running", "stopping"} -> "starting"
      [] c = "running" /\ h = Absent -> Absent
      [] c = "stopping" -> "stopping"
      [] c = "stopped" -> "stopped"

\* C1: on every triple of container status, health status and previous
\* status, getLocalStackStatus returns a defined instance status or absent,
\* and that result is the table's.
C1_DeriveIsTable ==
    derived.applied
    => /\ derived.result \in InstanceValues \cup {Absent}
       /\ derived.result = Table(derived.container, derived.health, derived.previous)

\* The hysteresis row, applied.
C1_Witness ==
    /\ derived.applied
    /\ derived.container = "running"
    /\ derived.health = "unhealthy"
    /\ derived.previous = "stopping"
    /\ derived.result = "stopping"

---------------------------------------------------------------------------
(* Claims about the instance tracker and the health poll loop (Spec).      *)

StatusValue == currentValue["status"]
HealthValue == currentValue["health"]
ContainerValue == currentValue["container"]

\* The hysteresis rows of the table, from the status before the recompute.
Hysteresis(previous) ==
    IF previous \in {"running", "stopping"} THEN "stopping" ELSE "starting"

\* C2: with the tracker's container status running, the recompute that
\* receives an unhealthy health value leaves the instance status stopping if
\* it was running or stopping and starting otherwise; the same holds when the
\* container update is the later of the two to arrive, and the tracker never
\* rests with container running and health unhealthy in any other status.
C2_Hysteresis ==
    /\ [][(\/ /\ HealthFanout
              /\ containerStatus = "running"
              /\ HealthValue = "unhealthy"
           \/ /\ ContainerFanout
              /\ ContainerValue = "running"
              /\ containerStatus # "running"
              /\ HealthValue = "unhealthy")
          => currentValue'["status"] = Hysteresis(StatusValue)]_vars
    /\ [](/\ immediates = <<>>
          /\ containerStatus = "running"
          /\ HealthValue = "unhealthy"
          => StatusValue \in {"starting", "stopping"})

C2_Witness ==
    /\ containerStatus = "running"
    /\ HealthValue = "unhealthy"
    /\ StatusValue = "stopping"
    /\ immediates = <<>>
    /\ calls = {}

\* C5: the poll loop never has two probes in flight at the same time.
C5_NoOverlappingProbes ==
    probesInFlight <= 1

\* C6: after a stop() that found a probe in flight, and until start() is
\* called again, no timer is armed and no probe is issued.
C6_StopMidProbeEndsPolling ==
    [][stopMidProbe /\ stopMidProbe'
       => /\ probesInFlight' <= probesInFlight
          /\ healthCheckTimeout' # "armed"
          /\ orphanTimers' <= orphanTimers]_vars

\* C7: while the poll loop is inactive its published health value is absent
\* and it starts no probe.
C7_InactiveHoldsNothing ==
    /\ [](~enqueueAgain => HealthValue = Absent)
    /\ [][~enqueueAgain /\ ~enqueueAgain' => probesInFlight' <= probesInFlight]_vars

\* C8: every time the instance status becomes running, stop() is invoked
\* by the time the status emitter has nothing left to deliver.
C8_RunningStopsPolling ==
    ~timeout["status"] => ~stopOwed

C10_ForceProjects ==
    [][/\ ForceContainerStatus("running")
          => currentValue'["status"] = "starting"
       /\ ForceContainerStatus("stopping")
          => currentValue'["status"] = "stopping"]_vars

\* Forced to running after the source reported stopped, and nothing newer
\* from the source.
C10_Witness ==
    /\ StatusValue = "starting"
    /\ timeout["status"]
    /\ containerStatus = "running"
    /\ ContainerValue = "stopped"
    /\ ~timeout["container"]
    /\ HealthValue = Absent

\* What deriveStatus leaves in the instance status for a table result.
Applied(result, previous) ==
    IF result = Absent THEN previous ELSE result

\* C11: after a forceContainerStatus call, the next container status the
\* source delivers is derived from: the instance status after that delivery
\* is the table's result for the delivered container status, the health value
\* and the status before it (external stopped gives stopped, external
\* stopping gives stopping).
C11_ForcedThenDerived ==
    [][ContainerFanout /\ forced
       => currentValue'["status"]
             = Applied(Table(ContainerValue, HealthValue, StatusValue),
                       StatusValue)]_vars

\* C12: when a container status of stopping is delivered while the instance
\* status is running, the instance status is stopping after the delivery,
\* whatever the health value is.
C12_StoppingFromRunning ==
    [][ContainerFanout /\ ContainerValue = "stopping" /\ StatusValue = "running"
       => currentValue'["status"] = "stopping"]_vars

\* The status became running on a healthy probe and, before the poll loop was
\* stopped for it, the container's stopping was delivered.
C12_Witness ==
    /\ StatusValue = "stopping"
    /\ containerStatus = "stopping"
    /\ ContainerValue = "stopping"
    /\ HealthValue = "healthy"
    /\ stopOwed
    /\ ~forced

C18_DisposeEndsPolling ==
    /\ [](dispose(dispose(S)) = dispose(S))
    /\ [][Dispose => healthCheckTimeout' # "armed" /\ orphanTimers' = 0]_vars
    /\ [][disposed /\ (\E outcome \in ProbeOutcomes : ProbeComplete(outcome))
          => /\ currentValue'["health"] = HealthValue
             /\ healthCheckTimeout' # "armed"]_vars
    /\ [][disposed => probesInFlight' <= probesInFlight]_vars

\* C21: at rest, with no scheduled run pending or executing and no probe in
\* flight, a container status of running with a health value of healthy goes
\* with an instance status of running, never with starting or stopping.
C21_ConsistentAtRest ==
    /\ immediates = <<>>
    /\ batchLeft = 0
    /\ probesInFlight = 0
    /\ containerStatus = "running"
    /\ ContainerValue = "running"
    /\ HealthValue = "healthy"
    => StatusValue = "running"

\* C22: once the instance status has a value, no step writes absent to it: a
\* container status of absent, a health value reset by stop(), a forced
\* container status, a recompute that yields absent or no change all leave a
\* value in place.
C22_StatusNeverReturnsToAbsent ==
    [][StatusValue # Absent => currentValue'["status"] # Absent]_vars

\* The source reported absent after the instance was running: the recompute
\* yielded absent and the status stayed.
C22_Witness ==
    /\ StatusValue = "running"
    /\ containerStatus = Absent
    /\ ContainerValue = Absent
    /\ ~timeout["container"]
    /\ ~forced

---------------------------------------------------------------------------
(* SpecEmitter: one value emitter ("cell"), written and subscribed to from *)
(* outside, whose callbacks return at once ("sync") or return a promise    *)
(* that settles later ("async").                                           *)

\* Bound on the callbacks registered with the emitter.
MaxCallbacks == 2

\* Bound on the setValue calls recorded before the scheduled run begins, and
\* on the immediates queued for the emitter.
MaxBurst == 3

EmitterValues == {"v1", "v2", Absent}

\* A callback returns at once, returns a promise that settles later, throws,
\* or returns a promise that is rejected later.
CallbackKinds == {"sync", "async", "throws", "rejects"}

InitEmitter ==
    /\ containerStatus = Absent
    /\ currentValue = [n \in {"cell"} |-> Absent]
    /\ timeout = [n \in {"cell"} |-> FALSE]
    /\ immediates = <<>>
    /\ batchLeft = 0
    /\ enqueueAgain = FALSE
    /\ healthCheckTimeout = "none"
    /\ orphanTimers = 0
    /\ probesInFlight = 0
    /\ calls = {}
    /\ stopOwed = FALSE
    /\ stopMidProbe = FALSE
    /\ forced = FALSE
    /\ disposed = FALSE
    /\ DeriveUnused
    /\ EmitterUnused
    /\ FileUnused
    /\ StatusBarUnused

\* No run of emit is between a callback that returned or threw at once and
\* the next statement of the loop: only then can anything else run.
BetweenTasks ==
    \A r \in 1..Len(runs) : callbacks[runs[r]] \in {"async", "rejects"}

\* ValueEmitter.setValue, called from outside the emitter.
EmitterSetValue(v) ==
    /\ BetweenTasks
    /\ Len(immediates) < MaxBurst
    /\ (runs = <<>> /\ timeout["cell"]) => Len(written) < MaxBurst
    /\ LET t == setValue(S, "cell", v)
           opened == ~timeout["cell"] /\ t.timeout["cell"]
       IN  /\ Commit(t)
           /\ written' = IF opened THEN <<v>>
                         ELSE IF runs = <<>> /\ timeout["cell"]
                              THEN Append(written, v)
                              ELSE written
           /\ delivered' = IF opened
                           THEN [i \in 1..Len(callbacks) |-> <<>>]
                           ELSE delivered
           /\ wroteDuringRun' = IF opened THEN FALSE
                                ELSE IF runs # <<>> /\ currentValue["cell"] # v
                                     THEN TRUE
                                     ELSE wroteDuringRun
    /\ UNCHANGED <<batchLeft, derived, callbacks, runs, lastCall, lastSeen,
                   uncaught, varsF, varsB>>

\* callbacks.push(callback)
push_Front(cbs, callback) ==
    <<callback>> \o cbs

push(cbs, callback) ==
    Append(cbs, callback)

\* ValueEmitter.onChange: the callback is pushed and called with the current
\* value. What it throws goes to the caller of onChange.
EmitterOnChange(kind) ==
    /\ BetweenTasks
    /\ Len(callbacks) < MaxCallbacks
    /\ callbacks' = push(callbacks, kind)
    /\ delivered' = Append(delivered, <<>>)
    /\ lastSeen' = Append(lastSeen, currentValue["cell"])
    /\ lastCall' = [to |-> Len(callbacks) + 1, value |-> currentValue["cell"],
                    how |-> "replay"]
    /\ UNCHANGED <<varsT, derived, runs, written, wroteDuringRun, uncaught, varsF, varsB>>

\* The callback at position i is called with currentValue.
Deliver(d, i) ==
    [d EXCEPT ![i] = Append(@, currentValue["cell"])]

\* The same call, in the histories of the latest calls.
Called(i) ==
    /\ lastSeen' = [lastSeen EXCEPT ![i] = currentValue["cell"]]
    /\ lastCall' = [to |-> i, value |-> currentValue["cell"], how |-> "fanout"]

\* emit's try/catch around the awaited callback: what the loop does once the
\* callback has returned, thrown, or its promise has settled.
settled_NoCatch(kind) ==
    IF kind \in {"throws", "rejects"} THEN "abort" ELSE "continue"

settled(kind) ==
    "continue"

\* The setImmediate callback: emit's async function runs up to its first
\* await, or to its end when there is no callback.
EmitterRunStart ==
    /\ BetweenTasks
    /\ immediates # <<>>
    /\ IF callbacks = <<>>
       THEN /\ Commit(emitDone(Pop(S), "cell"))
            /\ UNCHANGED <<runs, delivered, lastCall, lastSeen>>
       ELSE /\ Commit(Pop(S))
            /\ runs' = Append(runs, 1)
            /\ delivered' = Deliver(delivered, 1)
            /\ Called(1)
    /\ UNCHANGED <<batchLeft, derived, callbacks, written, wroteDuringRun,
                   uncaught, varsF, varsB>>

\* The awaited callback has settled: the loop goes on to the next callback,
\* or ends, and the finally clears the flag.
EmitterRunAdvance(r) ==
    /\ BetweenTasks \/ callbacks[runs[r]] \in {"sync", "throws"}
    /\ IF settled(callbacks[runs[r]]) = "continue" /\ runs[r] < Len(callbacks)
       THEN /\ runs' = [runs EXCEPT ![r] = @ + 1]
            /\ delivered' = Deliver(delivered, runs[r] + 1)
            /\ Called(runs[r] + 1)
            /\ UNCHANGED <<varsT, uncaught>>
       ELSE /\ runs' = [i \in 1..(Len(runs) - 1) |->
                          IF i < r THEN runs[i] ELSE runs[i + 1]]
            /\ Commit(emitDone(S, "cell"))
            /\ uncaught' = (uncaught \/ settled(callbacks[runs[r]]) = "abort")
            /\ UNCHANGED <<batchLeft, delivered, lastCall, lastSeen>>
    /\ UNCHANGED <<derived, callbacks, written, wroteDuringRun, varsF, varsB>>

NextEmitter ==
    \/ \E v \in EmitterValues : EmitterSetValue(v)
    \/ \E kind \in CallbackKinds : EmitterOnChange(kind)
    \/ EmitterRunStart
    \/ \E r \in 1..Len(runs) : EmitterRunAdvance(r)

SpecEmitter == InitEmitter /\ [][NextEmitter]_vars

\* A run of emit ends in this step.
EmitterRunEnds ==
    /\ runs # <<>>
    /\ Len(runs') < Len(runs)

\* C3: when the scheduled run ends, every registered callback has been called
\* exactly once since the first setValue of the sequence that scheduled it,
\* and, no write having landed after the run began, with the last value of
\* that sequence and none of the values written before it.
C3_OneCallbackLastValue ==
    [][EmitterRunEnds
       => \A i \in 1..Len(callbacks) :
             /\ Len(delivered'[i]) = 1
             /\ ~wroteDuringRun => delivered'[i] = <<written[Len(written)]>>]_vars

\* Three writes, two of them overwritten, and two callbacks served.
C3_Witness ==
    /\ written = <<"v1", "v2", "v1">>
    /\ ~wroteDuringRun
    /\ Len(callbacks) = 2
    /\ delivered = <<<<"v1">>, <<"v1">>>>
    /\ ~timeout["cell"]
    /\ runs = <<>>

\* C13: the value a fan-out delivers differs from the value of the delivery
\* before it, replay or fan-out; writing a new value and then the delivered
\* value back before the fan-out runs delivers nothing unchanged.
C13_NoRepeatedDelivery ==
    [][EmitterRunStart /\ callbacks # <<>> /\ lastCall # NoCall
       => currentValue["cell"] # lastCall.value]_vars

\* C14: onChange appends the callback after those registered before it and
\* calls it once, within the call, with the current value, a fan-out pending
\* or not; a fan-out calls the callbacks in registration order.
C14_ReplayAndOrder ==
    /\ [][\A kind \in CallbackKinds :
             EmitterOnChange(kind)
             => /\ callbacks' = Append(callbacks, kind)
                /\ lastCall' = [to |-> Len(callbacks'), how |-> "replay",
                                value |-> currentValue["cell"]]
                /\ lastSeen'[Len(callbacks')] = currentValue["cell"]
                /\ delivered'[Len(callbacks')] = <<>>]_vars
    /\ [][/\ EmitterRunStart /\ callbacks # <<>> => lastCall'.to = 1
          /\ \A r \in 1..Len(runs) :
                EmitterRunAdvance(r) /\ ~EmitterRunEnds
                => lastCall'.to = runs[r] + 1]_vars
    /\ [][EmitterRunEnds
          => \A i \in 1..Len(callbacks) : Len(delivered'[i]) >= 1]_vars

\* Registered while a fan-out of v1 was pending: replayed v1 within onChange,
\* behind a callback registered before it.
C14_Witness ==
    /\ Len(callbacks) = 2
    /\ callbacks[1] # callbacks[2]
    /\ lastCall = [to |-> 2, how |-> "replay", value |-> "v1"]
    /\ timeout["cell"]
    /\ immediates = <<"cell">>
    /\ runs = <<>>

\* C15: at most one unit of work of the scheduler is pending or executing:
\* the triggers made while a run is pending add no run, and no two runs are
\* in progress together.
C15_OnePendingOrExecuting ==
    /\ Len(immediates) + Len(runs) <= 1
    /\ timeout["cell"] <=> (Len(immediates) + Len(runs) = 1)

\* Three triggers while the run was pending; the one run is executing.
C15_Witness ==
    /\ Len(written) = 3
    /\ written[1] # written[2]
    /\ written[2] # written[3]
    /\ runs = <<1>>
    /\ immediates = <<>>
    /\ timeout["cell"]

\* C17: a fan-out with a callback that throws or whose promise is rejected
\* still calls every callback registered after it, lets nothing out of the
\* loop, and leaves the flag cleared, so that later writes are delivered.
C17_FaultyObserverIsolated ==
    /\ [](~uncaught)
    /\ [][EmitterRunEnds
          /\ (\E i \in 1..Len(callbacks) : callbacks[i] \in {"throws", "rejects"})
          => /\ \A i \in 1..Len(callbacks) : Len(delivered'[i]) = 1
             /\ ~timeout'["cell"]]_vars

\* A second fan-out served both callbacks although the first one rejects.
C17_Witness ==
    /\ callbacks = <<"rejects", "sync">>
    /\ lastSeen = <<"v2", "v2">>
    /\ delivered = <<<<"v2">>, <<"v2">>>>
    /\ lastCall = [to |-> 2, how |-> "fanout", value |-> "v2"]
    /\ runs = <<>>
    /\ ~timeout["cell"]

\* C20: every callback of one fan-out receives the value that was current
\* when the run started, also when setValue is called during the fan-out; and
\* with nothing left to run, the value each callback received last is the
\* current value.
C20_OneValuePerCycle ==
    /\ [][EmitterRunEnds
          => \A i \in 1..Len(callbacks) :
                \A j \in 1..Len(delivered'[i]) :
                   delivered'[i][j] = written[Len(written)]]_vars
    /\ [](immediates = <<>> /\ runs = <<>>
          => \A i \in 1..Len(callbacks) : lastSeen[i] = currentValue["cell"])

---------------------------------------------------------------------------
(* SpecFile: createFileStatusTracker. updateStatus is a once-immediate     *)
(* scheduler whose unit of work awaits check() and publishes its result.   *)

\* SetupStatus, and undefined.
FileValues == {"ok", "setup_required", "waiting_for_dependencies", Absent}

InitFile ==
    /\ containerStatus = Absent
    /\ currentValue = [n \in {"fileStatus"} |-> Absent]
    /\ timeout = [n \in {"fileStatus", "updateStatus"} |-> n = "updateStatus"]
    /\ immediates = <<"updateStatus">>
    /\ batchLeft = 0
    /\ enqueueAgain = FALSE
    /\ healthCheckTimeout = "none"
    /\ orphanTimers = 0
    /\ probesInFlight = 0
    /\ calls = {}
    /\ stopOwed = FALSE
    /\ stopMidProbe = FALSE
    /\ forced = FALSE
    /\ disposed = FALSE
    /\ DeriveUnused
    /\ EmitterUnused
    /\ StatusBarUnused
    /\ \E f \in FileValues : fileState = f
    /\ checking = FALSE
    /\ checkResult = Absent
    /\ unserved = TRUE

\* The watcher reports a change, a deletion or an addition: updateStatus().
FileEvent(f) ==
    /\ fileState' = f
    /\ Commit(trigger(S, "updateStatus"))
    /\ unserved' = TRUE
    /\ UNCHANGED <<batchLeft, derived, varsE, varsB, checking, checkResult>>

\* StatusTracker.check: updateStatus() with nothing changed on disk.
FileCheck ==
    /\ Commit(trigger(S, "updateStatus"))
    /\ unserved' = TRUE
    /\ UNCHANGED <<batchLeft, derived, varsE, varsB, fileState, checking, checkResult>>

\* The rest of the unit of work once check() has returned: the result is
\* published, and the finally clears the flag.
publish(st, newStatus) ==
    emitDone(setValue(st, "fileStatus", newStatus), "updateStatus")

\* The setImmediate callback of updateStatus, with a check that returns at
\* once: the unit of work runs to its end.
FileRunSync ==
    /\ ~checking
    /\ immediates # <<>>
    /\ Head(immediates) = "updateStatus"
    /\ Commit(publish(Pop(S), fileState))
    /\ unserved' = FALSE
    /\ UNCHANGED <<batchLeft, derived, varsE, varsB, fileState, checking, checkResult>>

\* The same with a check that returns a promise: the unit of work is
\* suspended until the promise settles.
FileRunStart ==
    /\ ~checking
    /\ immediates # <<>>
    /\ Head(immediates) = "updateStatus"
    /\ Commit(Pop(S))
    /\ checking' = TRUE
    /\ checkResult' = fileState
    /\ unserved' = FALSE
    /\ UNCHANGED <<batchLeft, derived, varsE, varsB, fileState>>

\* The promise of check() settles.
FileRunEnd ==
    /\ checking
    /\ Commit(publish(S, checkResult))
    /\ checking' = FALSE
    /\ checkResult' = Absent
    /\ UNCHANGED <<batchLeft, derived, varsE, varsB, fileState, unserved>>

\* check() throws, or the promise it returned is rejected: the async unit of
\* work ends rejected without publishing, and the finally clears the flag.
FileRunFails ==
    /\ \/ checking
       \/ ~checking /\ immediates # <<>> /\ Head(immediates) = "updateStatus"
    /\ Commit(emitDone(IF checking THEN S ELSE Pop(S), "updateStatus"))
    /\ checking' = FALSE
    /\ checkResult' = Absent
    /\ unserved' = (checking /\ unserved)
    /\ UNCHANGED <<batchLeft, derived, varsE, varsB, fileState>>

\* The scheduled run of the status emitter; its observers are outside.
FileStatusFanout ==
    /\ immediates # <<>>
    /\ Head(immediates) = "fileStatus"
    /\ Commit(emitDone(Pop(S), "fileStatus"))
    /\ UNCHANGED <<batchLeft, derived, varsE, varsB, varsF, varsB>>

NextFile ==
    \/ \E f \in FileValues : FileEvent(f)
    \/ FileCheck
    \/ FileRunSync
    \/ FileRunStart
    \/ FileRunEnd
    \/ FileRunFails
    \/ FileStatusFanout

SpecFile == InitFile /\ [][NextFile]_vars

\* C4: every updateStatus() call, also one made while the unit of work is
\* suspended in await check(), has a run of the unit of work scheduled after
\* it: until a run begins, one is queued.
C4_EveryTriggerGetsARun ==
    unserved => \E i \in 1..Len(immediates) : immediates[i] = "updateStatus"

---------------------------------------------------------------------------
(* SpecStatusBar: the status bar plugin. renderStatusBar is a              *)
(* once-immediate scheduler around a synchronous unit of work, triggered   *)
(* by the observers of the instance status and of the setup status.        *)

\* What the unit of work reads: the three trackers' status() and the CLI
\* tracker's outdated(), a boolean or undefined.
BarInputs == {"localStackStatus", "setupStatus", "cliStatus", "cliOutdated"}

OutdatedValues == {"true", "false", Absent}

getOverallStatusText(cliStatus, localStackStatus, cliOutdated) ==
    IF cliStatus = "ok" THEN localStackStatus
    ELSE IF cliOutdated = "true" THEN "CLI outdated"
    ELSE "CLI not installed"

\* The unit of work of renderStatusBar, when it returns.
renderStatusBar(item, in) ==
    IF \/ in["setupStatus"] = Absent
       \/ in["localStackStatus"] = Absent
       \/ in["cliStatus"] = Absent
    THEN item
    ELSE [command |-> "localstack.showCommands",
          backgroundColor |-> IF in["setupStatus"] = "setup_required"
                              THEN "statusBarItem.errorBackground" ELSE Absent,
          text |-> <<IF in["setupStatus"] = "setup_required" THEN "$(error)"
                     ELSE IF in["localStackStatus"] \in {"starting", "stopping"}
                          THEN "$(sync~spin)"
                          ELSE "$(localstack-logo)",
                     getOverallStatusText(in["cliStatus"], in["localStackStatus"],
                                          in["cliOutdated"])>>,
          tooltip |-> "Show LocalStack commands"]

\* The plugin has registered its two observers, each replayed at once: the
\* first replay has scheduled renderStatusBar.
InitStatusBar ==
    /\ containerStatus = Absent
    /\ \E l \in InstanceValues \cup {Absent}, su \in FileValues, c \in FileValues,
          o \in OutdatedValues :
          currentValue = [n \in BarInputs |->
                            IF n = "localStackStatus" THEN l
                            ELSE IF n = "setupStatus" THEN su
                            ELSE IF n = "cliStatus" THEN c ELSE o]
    /\ timeout = [n \in {"renderStatusBar"} |-> TRUE]
    /\ immediates = <<"renderStatusBar">>
    /\ batchLeft = 0
    /\ enqueueAgain = FALSE
    /\ healthCheckTimeout = "none"
    /\ orphanTimers = 0
    /\ probesInFlight = 0
    /\ calls = {}
    /\ stopOwed = FALSE
    /\ stopMidProbe = FALSE
    /\ forced = FALSE
    /\ disposed = FALSE
    /\ DeriveUnused
    /\ EmitterUnused
    /\ FileUnused
    /\ StatusBarUnused

\* A tracker the plugin observes delivers a new value: the observer calls
\* renderStatusBar().
TrackerChanged(n, v) ==
    /\ currentValue[n] # v
    /\ Commit(trigger([S EXCEPT !.currentValue[n] = v], "renderStatusBar"))
    /\ UNCHANGED <<batchLeft, derived, varsE, varsF, varsB>>

\* The CLI tracker changes; the plugin does not observe it.
CliChanged(c, o) ==
    /\ Commit([S EXCEPT !.currentValue["cliStatus"] = c,
                        !.currentValue["cliOutdated"] = o])
    /\ UNCHANGED <<batchLeft, derived, varsE, varsF, varsB>>

\* The setImmediate callback, the unit of work returning: the promise of its
\* result is fulfilled and the finally clears the flag.
RenderReturns ==
    /\ immediates # <<>>
    /\ Commit(emitDone(Pop(S), "renderStatusBar"))
    /\ statusBarItem' = renderStatusBar(statusBarItem, currentValue)
    /\ UNCHANGED <<batchLeft, derived, varsE, varsF>>

\* The same, the unit of work throwing in outputChannel.trace: callback()
\* throws before Promise.resolve is called, so no finally is attached.
RenderThrows ==
    /\ immediates # <<>>
    /\ Commit(Pop(S))
    /\ UNCHANGED <<batchLeft, derived, varsE, varsF, varsB>>

NextStatusBar ==
    \/ \E v \in InstanceValues : TrackerChanged("localStackStatus", v)
    \/ \E v \in FileValues : TrackerChanged("setupStatus", v)
    \/ \E c \in FileValues, o \in OutdatedValues : CliChanged(c, o)
    \/ RenderReturns
    \/ RenderThrows

SpecStatusBar == InitStatusBar /\ [][NextStatusBar]_vars

\* C16: a unit of work that throws leaves the flag cleared as one that
\* returns does, so that the next trigger schedules a run.
C16_FailureClearsFlag ==
    /\ [][RenderThrows => ~timeout'["renderStatusBar"]]_vars
    /\ [][(\E n \in {"localStackStatus", "setupStatus"},
              v \in InstanceValues \cup FileValues : TrackerChanged(n, v))
          => immediates' # <<>>]_vars

===========================================================================
